---- MODULE Spec2Model ----
(***************************************************************************)
(* ANN-SoLo spectral library search engine (search_engine.py): the search  *)
(* driver, the candidate filter, the single-slot ANN index cache and the   *)
(* construction of the per-charge ANN index files; and the similarity     *)
(* measures of a spectrum-spectrum match (spectrum_similarity.py).         *)
(***************************************************************************)
EXTENDS Integers, Sequences, FiniteSets, TLC

(***************************************************************************)
(* Bounds of the model.                                                    *)
(***************************************************************************)
MaxCalls == 5

MaxFilterCalls == 2

MaxQueries == 2

NThreads == 2

MaxThreadCalls == 3

MaxQueryPeaks == 2

MaxLibraryPeaks == 3

MaxShutdowns == 2

(***************************************************************************)
(* Program constants.                                                      *)
(***************************************************************************)
\* Python's None in the slots of _current_index (charges and handles are >= 1).
None == 0

\* The precursor charges of the modelled libraries and queries.
Charges == {1, 2, 3}

VARIABLES
    index_files,     \* charge -> the persisted .idxann file: [exists, items]
    ann_filenames,   \* keys of the _ann_filenames dict: charges with an index
    other_filenames, \* the keys whose file name was assigned by another instance
    current_index,   \* _current_index: [charge, handle]
    handles,         \* every AnnoyIndex object created by a load: [charge, loaded]
    events,          \* backend log: <<"load", h>>, <<"unload", h>>, <<"load_failed", c>>
    requests,        \* charges requested from _get_ann_index, in call order
    last_ret,        \* what the last _get_ann_index call returned: [handle, hit, raised]
    n_shutdowns,     \* number of shutdown() calls made
    library,         \* the spectral library file: entries [id, charge, mass, valid]
    config,          \* the configuration read by the engine
    call,            \* the last _filter_library_candidates call: arguments and result
    n_calls,         \* number of _filter_library_candidates calls made
    pc,              \* where SpectralLibrary.search stands
    raw_queries,     \* the spectra of the query file, in file order
    query_spectra,   \* the valid charge trials, sorted by the driver
    pos,             \* number of trials the identification loop has processed
    query_matches,   \* the query_matches dict, in insertion order
    outcomes,        \* the SpectrumMatch _find_match returned for each processed trial
    tpc,             \* per thread: where its _query_ann call stands
    treq,            \* per thread: the charge of its query
    theld,           \* per thread: the handle _get_ann_index returned to it
    lock,            \* holder of _ann_index_lock (None: free)
    open_pc,         \* where SpectralLibraryAnnoy.__init__ stands
    is_recreated,    \* the library reader's is_recreated flag
    create_ann_charges, \* the charges found to need a new index
    ann_indices,     \* the in-memory indices __init__ creates: charge -> items
    pending,         \* build tasks handed to the thread pool and not yet run
    orig_files,      \* the index files as they were before the engine was opened
    ssm,             \* the SpectrumSpectrumMatch handed to SpectrumSimilarityFactory
    factory,         \* the SpectrumSimilarityFactory object (or the failed construction)
    result           \* the last call of a method of the factory: what it returned

cache_vars == <<current_index, handles, events, requests, last_ret, n_shutdowns>>
engine_vars == <<library, config, index_files, ann_filenames, other_filenames>>
filter_vars == <<call, n_calls>>
search_vars == <<pc, raw_queries, query_spectra, pos, query_matches, outcomes>>
thread_vars == <<tpc, treq, theld, lock>>
open_vars == <<open_pc, is_recreated, create_ann_charges, ann_indices, pending, orig_files>>
sim_vars == <<ssm, factory, result>>
vars == <<index_files, ann_filenames, other_filenames, current_index, handles, events, requests,
          last_ret, n_shutdowns, library, config, call, n_calls,
          pc, raw_queries, query_spectra, pos, query_matches, outcomes,
          tpc, treq, theld, lock,
          open_pc, is_recreated, create_ann_charges, ann_indices, pending, orig_files,
          ssm, factory, result>>

(***************************************************************************)
(* Sequence helpers.                                                       *)
(***************************************************************************)
Range(s) == {s[i] : i \in 1..Len(s)}

RECURSIVE CountIf(_, _)
CountIf(s, kind) ==
    IF s = <<>> THEN 0
    ELSE (IF Head(s)[1] = kind THEN 1 ELSE 0) + CountIf(Tail(s), kind)

(***************************************************************************)
(* SpectralLibraryAnnoy._get_ann_index: the body run under _ann_index_lock.*)
(* load_ok is the backend's answer to index.load(): FALSE makes load raise.*)
(* The result is the new cache slot, the handles, the backend events in    *)
(* the order the code issues them, and the returned handle.                *)
(***************************************************************************)
UnloadHandle(hs, h) == [hs EXCEPT ![h].loaded = FALSE]

\* Variant: the previous index is not unloaded before the new one is loaded.
get_ann_index_keeps_previous(cur, hs, charge, load_ok) ==
    IF cur.charge # charge
    THEN LET h == Len(hs) + 1
         IN  [cur     |-> [charge |-> charge, handle |-> h],
              handles |-> Append(hs, [charge |-> charge, loaded |-> TRUE]),
              events  |-> <<<<"load", h>>>>,
              ret     |-> [handle |-> h, hit |-> FALSE, raised |-> FALSE]]
    ELSE [cur     |-> cur,
          handles |-> hs,
          events  |-> <<>>,
          ret     |-> [handle |-> cur.handle, hit |-> TRUE, raised |-> FALSE]]

\* Variant: the cached charge is not compared, every call reloads.
get_ann_index_always_loads(cur, hs, charge, load_ok) ==
    LET has_prev == cur.handle # None
        hs1 == IF has_prev THEN UnloadHandle(hs, cur.handle) ELSE hs
        ev1 == IF has_prev THEN <<<<"unload", cur.handle>>>> ELSE <<>>
        h   == Len(hs1) + 1
    IN  [cur     |-> [charge |-> charge, handle |-> h],
         handles |-> Append(hs1, [charge |-> charge, loaded |-> TRUE]),
         events  |-> ev1 \o <<<<"load", h>>>>,
         ret     |-> [handle |-> h, hit |-> FALSE, raised |-> FALSE]]

get_ann_index(cur, hs, charge, load_ok) ==
    IF cur.charge # charge
    THEN LET has_prev == cur.handle # None
             hs1 == IF has_prev THEN UnloadHandle(hs, cur.handle) ELSE hs
             ev1 == IF has_prev THEN <<<<"unload", cur.handle>>>> ELSE <<>>
             h   == Len(hs1) + 1
         IN  IF load_ok
             THEN [cur     |-> [charge |-> charge, handle |-> h],
                   handles |-> Append(hs1, [charge |-> charge, loaded |-> TRUE]),
                   events  |-> ev1 \o <<<<"load", h>>>>,
                   ret     |-> [handle |-> h, hit |-> FALSE, raised |-> FALSE]]
             ELSE [cur     |-> cur,
                   handles |-> Append(hs1, [charge |-> charge, loaded |-> FALSE]),
                   events  |-> ev1 \o <<<<"load_failed", h>>>>,
                   ret     |-> [handle |-> None, hit |-> FALSE, raised |-> TRUE]]
    ELSE [cur     |-> cur,
          handles |-> hs,
          events  |-> <<>>,
          ret     |-> [handle |-> cur.handle, hit |-> TRUE, raised |-> FALSE]]

(***************************************************************************)
(* Initial cache state: SpectralLibraryAnnoy.__init__ sets                 *)
(* _current_index = None, None.                                            *)
(***************************************************************************)
CacheInit ==
    /\ current_index = [charge |-> None, handle |-> None]
    /\ handles = <<>>
    /\ events = <<>>
    /\ requests = <<>>
    /\ last_ret = [handle |-> None, hit |-> FALSE, raised |-> FALSE]
    /\ n_shutdowns = 0

(***************************************************************************)
(* The spectral library as the reader presents it.  spec_info[charge] holds *)
(* the parallel arrays id and precursor_mass of the library entries of     *)
(* that charge, in library order.                                          *)
(***************************************************************************)
LibA ==
    << [id |-> 1, charge |-> 2, mass |-> 100, valid |-> TRUE],
       [id |-> 2, charge |-> 2, mass |-> 100, valid |-> FALSE],
       [id |-> 3, charge |-> 2, mass |-> 101, valid |-> TRUE],
       [id |-> 4, charge |-> 3, mass |-> 100, valid |-> TRUE],
       [id |-> 5, charge |-> 3, mass |-> 100, valid |-> TRUE],
       [id |-> 6, charge |-> 1, mass |-> 100, valid |-> TRUE] >>

LibB ==
    << [id |-> 1, charge |-> 3, mass |-> 101, valid |-> TRUE],
       [id |-> 2, charge |-> 2, mass |-> 100, valid |-> TRUE],
       [id |-> 3, charge |-> 1, mass |-> 100, valid |-> TRUE],
       [id |-> 4, charge |-> 2, mass |-> 100, valid |-> TRUE],
       [id |-> 5, charge |-> 3, mass |-> 100, valid |-> FALSE],
       [id |-> 6, charge |-> 2, mass |-> 101, valid |-> TRUE] >>

Libraries == {LibA, LibB}

\* Precursor m/z values of the queries.
MzValues == {100, 101}

\* Precursor mass windows <<tol_mass, tol_mode>>; "none" stands for any mode
\* other than Da and ppm.
Tolerances == {<<1, "Da">>, <<9950, "ppm">>, <<0, "none">>}

Configs ==
    [ann_cutoff : {0, 1},
     num_candidates : {1, 2},
     precursor_tolerance_mass : {1},
     precursor_tolerance_mode : {"Da"}]

spec_info(lib, charge) == SelectSeq(lib, LAMBDA e : e.charge = charge)

Ids(entries) == [i \in 1..Len(entries) |-> entries[i].id]

\* The reader keeps the id array of every charge sorted by id.
ids_sorted(lib) ==
    \A c \in Charges :
        \A i, j \in 1..Len(spec_info(lib, c)) :
            i < j => spec_info(lib, c)[i].id < spec_info(lib, c)[j].id

LibEntry(lib, id) == CHOOSE e \in Range(lib) : e.id = id

Abs(x) == IF x < 0 THEN -x ELSE x

Min(a, b) == IF a <= b THEN a ELSE b

\* Variant: the bound of the window is exclusive.
get_mass_filter_idx_exclusive(lib, mass, charge, tol_mass, tol_mode) ==
    LET keep(e) ==
            CASE tol_mode = "Da"  -> Abs(mass - e.mass) * charge < tol_mass
              [] tol_mode = "ppm" -> Abs(mass - e.mass) * 10^6 < tol_mass * e.mass
              [] OTHER            -> TRUE
    IN  Ids(SelectSeq(spec_info(lib, charge), keep))

(***************************************************************************)
(* SpectralLibrary._get_mass_filter_idx: the ids of the library entries of *)
(* the charge whose precursor mass lies in the window.  The ppm quotient   *)
(* |mass - M| / M * 10^6 <= tol is compared cross-multiplied (M > 0).      *)
(***************************************************************************)
get_mass_filter_idx(lib, mass, charge, tol_mass, tol_mode) ==
    LET keep(e) ==
            CASE tol_mode = "Da"  -> Abs(mass - e.mass) * charge <= tol_mass
              [] tol_mode = "ppm" -> Abs(mass - e.mass) * 10^6 <= tol_mass * e.mass
              [] OTHER            -> TRUE
    IN  Ids(SelectSeq(spec_info(lib, charge), keep))

(***************************************************************************)
(* np.intersect1d(ar1, ar2, assume_unique=True): concatenate, sort, and    *)
(* keep every element equal to its successor.                              *)
(***************************************************************************)
RECURSIVE InsertInt(_, _)
InsertInt(x, s) ==
    IF s = <<>> THEN <<x>>
    ELSE IF x < Head(s) THEN <<x>> \o s
    ELSE <<Head(s)>> \o InsertInt(x, Tail(s))

RECURSIVE SortInts(_)
SortInts(s) ==
    IF s = <<>> THEN <<>>
    ELSE InsertInt(s[Len(s)], SortInts(SubSeq(s, 1, Len(s) - 1)))

RECURSIVE KeepEqualToNext(_)
KeepEqualToNext(aux) ==
    IF Len(aux) < 2 THEN <<>>
    ELSE (IF aux[1] = aux[2] THEN <<aux[1]>> ELSE <<>>) \o KeepEqualToNext(Tail(aux))

intersect1d(ar1, ar2) == KeepEqualToNext(SortInts(ar1 \o ar2))

(***************************************************************************)
(* SpectralLibraryAnn._filter_library_candidates, stage by stage.          *)
(***************************************************************************)
\* Variant: the cutoff is compared with >=.
use_ann_at_cutoff(mass_filter, ann_cutoff, charge, filenames) ==
    Len(mass_filter) >= ann_cutoff /\ charge \in filenames

\* Line 268: refine with the ANN index?
use_ann(mass_filter, ann_cutoff, charge, filenames) ==
    Len(mass_filter) > ann_cutoff /\ charge \in filenames

\* Line 272: the per-charge item numbers (0-based) as library identifiers.
ann_translate(lib, charge, ann_charge_ids) ==
    [i \in 1..Len(ann_charge_ids) |-> Ids(spec_info(lib, charge))[ann_charge_ids[i] + 1]]

\* Variant: the ANN neighbours are not intersected with the mass filter.
candidate_idx_ann_only(mass_filter, ann_filter, with_ann) ==
    IF with_ann THEN ann_filter ELSE mass_filter

\* Variant: the ANN neighbours inside the mass window, in the order of the ANN
\* answer.
candidate_idx_ann_order(mass_filter, ann_filter, with_ann) ==
    IF with_ann THEN SelectSeq(ann_filter, LAMBDA id : id \in Range(mass_filter))
    ELSE mass_filter

\* Lines 274-277: the identifiers of the candidates to read.
candidate_idx(mass_filter, ann_filter, with_ann) ==
    IF with_ann THEN intersect1d(ann_filter, mass_filter) ELSE mass_filter

\* Lines 280-285: read the candidates in order, keeping the valid ones.
RECURSIVE read_candidates(_, _)
read_candidates(lib, idxs) ==
    IF idxs = <<>> THEN <<>>
    ELSE (IF LibEntry(lib, Head(idxs)).valid THEN <<Head(idxs)>> ELSE <<>>)
             \o read_candidates(lib, Tail(idxs))

\* What the backend may answer to get_nns_by_vector on an index of n items:
\* at most k distinct item numbers, in any order.
AnnAnswers(n, k) ==
    {a \in UNION {[1..m -> 0..(n - 1)] : m \in 0..Min(k, n)} :
        \A i, j \in 1..Len(a) : i # j => a[i] # a[j]}

ValidIds(lib, charge) ==
    Ids(SelectSeq(spec_info(lib, charge), LAMBDA e : e.valid))

\* Lines 364-365: the charges that get an ANN index.
ann_charges(lib, cutoff) ==
    {c \in Charges : Len(spec_info(lib, c)) > cutoff}

NoIndices == [c \in Charges |-> [made |-> FALSE, items |-> <<>>]]

\* An opened engine whose index files all exist, each built from the valid
\* library spectra of its charge.
EngineInit(libs, cfgs) ==
    /\ library \in libs
    /\ ids_sorted(library)
    /\ config \in cfgs
    /\ ann_filenames = ann_charges(library, config.ann_cutoff)
    /\ other_filenames = {}
    /\ index_files =
           [c \in Charges |->
               IF c \in ann_charges(library, config.ann_cutoff)
               THEN [exists |-> TRUE, items |-> ValidIds(library, c)]
               ELSE [exists |-> FALSE, items |-> <<>>]]
    /\ open_pc = "opened"
    /\ is_recreated = FALSE
    /\ create_ann_charges = {}
    /\ ann_indices = NoIndices
    /\ pending = {}
    /\ orig_files = index_files

NoCall ==
    [query |-> [query_id |-> None, precursor_charge |-> None, precursor_mz |-> None],
     tol_mass |-> None, tol_mode |-> "none", num_candidates |-> None,
     ann_cutoff |-> None, mass_filter |-> <<>>, used_ann |-> FALSE,
     ann_charge_ids |-> <<>>, ann_filter |-> <<>>, candidate_idx |-> <<>>,
     candidates |-> <<>>, raised |-> "none", failed_id |-> None]

FilterInit ==
    /\ call = NoCall
    /\ n_calls = 0

(***************************************************************************)
(* One call of _filter_library_candidates (lines 264-287) with the         *)
(* _query_ann and _get_ann_index calls it makes.  answer is what the       *)
(* backend returns for the nearest-neighbour query; fail_at is the         *)
(* position in candidate_idx at which get_spectrum raises (0: nowhere).    *)
(* The result holds the call record and the new cache state.               *)
(***************************************************************************)
filter_library_candidates(query, tol_mass, tol_mode, num_candidates, ann_cutoff, answer, fail_at) ==
    LET charge      == query.precursor_charge
        mass_filter == get_mass_filter_idx(library, query.precursor_mz, charge,
                                           tol_mass, tol_mode)
        with_ann    == use_ann(mass_filter, ann_cutoff, charge, ann_filenames)
        got         == get_ann_index(current_index, handles, charge, TRUE)
        ann_filter  == IF with_ann THEN ann_translate(library, charge, answer) ELSE <<>>
        cand_idx    == candidate_idx(mass_filter, ann_filter, with_ann)
        failed      == fail_at \in 1..Len(cand_idx)
    IN  [call |->
            [query |-> query, tol_mass |-> tol_mass, tol_mode |-> tol_mode,
             num_candidates |-> num_candidates, ann_cutoff |-> ann_cutoff,
             mass_filter |-> mass_filter, used_ann |-> with_ann,
             ann_charge_ids |-> IF with_ann THEN answer ELSE <<>>,
             ann_filter |-> ann_filter, candidate_idx |-> cand_idx,
             candidates |-> IF failed THEN <<>> ELSE read_candidates(library, cand_idx),
             raised |-> IF failed THEN "read" ELSE "none",
             failed_id |-> IF failed THEN cand_idx[fail_at] ELSE None],
         cur      |-> IF with_ann THEN got.cur ELSE current_index,
         handles  |-> IF with_ann THEN got.handles ELSE handles,
         events   |-> IF with_ann THEN events \o got.events ELSE events,
         requests |-> IF with_ann THEN Append(requests, charge) ELSE requests,
         ret      |-> IF with_ann THEN got.ret ELSE last_ret]

\* The answers the backend can give for this query: none is asked for unless
\* the ANN index is used; otherwise up to num_candidates items of the index
\* file of the query's charge.
AnswersFor(query, tol_mass, tol_mode, num_candidates, ann_cutoff) ==
    IF use_ann(get_mass_filter_idx(library, query.precursor_mz, query.precursor_charge,
                                   tol_mass, tol_mode),
               ann_cutoff, query.precursor_charge, ann_filenames)
    THEN AnnAnswers(Len(index_files[query.precursor_charge].items), num_candidates)
    ELSE {<<>>}

FilterLibraryCandidates ==
    /\ n_calls < MaxFilterCalls
    /\ \E charge \in Charges, mz \in MzValues, tol \in Tolerances,
          num_candidates \in {1, 2}, ann_cutoff \in {0, 2} :
        LET query == [query_id |-> n_calls + 1, precursor_charge |-> charge,
                      precursor_mz |-> mz]
            tol_mass == tol[1]
            tol_mode == tol[2]
        IN  \E answer \in AnswersFor(query, tol_mass, tol_mode, num_candidates, ann_cutoff) :
            \E r0 \in {filter_library_candidates(query, tol_mass, tol_mode,
                                                  num_candidates, ann_cutoff, answer, 0)} :
            \E fail_at \in 0..Len(r0.call.candidate_idx) :
            \E r \in {IF fail_at = 0 THEN r0
                       ELSE filter_library_candidates(query, tol_mass, tol_mode,
                                                      num_candidates, ann_cutoff,
                                                      answer, fail_at)} :
                    /\ call' = r.call
                    /\ current_index' = r.cur
                    /\ handles' = r.handles
                    /\ events' = r.events
                    /\ requests' = r.requests
                    /\ last_ret' = r.ret
                    /\ UNCHANGED n_shutdowns
    /\ n_calls' = n_calls + 1
    /\ UNCHANGED <<sim_vars, engine_vars, search_vars, thread_vars, open_vars>>

(***************************************************************************)
(* SpectralLibrary.search (lines 61-103).                                  *)
(***************************************************************************)
\* Line 78: the charges tried for a query spectrum of unknown charge.
UnknownChargeTrials == <<2, 3>>

\* Scores the matcher can give to the best candidate.
Scores == {1, 2}

\* A spectrum of the query file: its identifier, its precursor charge (None:
\* unknown), its precursor m/z, and the charges under which the processed
\* spectrum passes is_valid().
\* Variant: a spectrum of unknown charge is tried with the first charge only.
trial_charges_first_only(raw) ==
    IF raw.precursor_charge = None THEN <<UnknownChargeTrials[1]>>
    ELSE <<raw.precursor_charge>>

trial_charges(raw) ==
    IF raw.precursor_charge = None THEN UnknownChargeTrials
    ELSE <<raw.precursor_charge>>

\* valid_charges lists only charges the spectrum can be tried with.
RawQueries ==
    {raw \in [precursor_charge : {None, 2, 3}, precursor_mz : MzValues,
              valid_charges : SUBSET {2, 3}] :
        raw.valid_charges \subseteq
            (IF raw.precursor_charge = None THEN {2, 3} ELSE {raw.precursor_charge})}

\* Lines 78-83: the valid charge trials of one query spectrum.
trials_of(raw, query_id) ==
    LET cs == SelectSeq(trial_charges(raw), LAMBDA c : c \in raw.valid_charges)
    IN  [i \in 1..Len(cs) |->
            [query_id |-> query_id, precursor_charge |-> cs[i],
             precursor_mz |-> raw.precursor_mz]]

\* Lines 75-83: all valid trials, in file order.
RECURSIVE read_queries(_, _)
read_queries(raws, n) ==
    IF n = 0 THEN <<>>
    ELSE read_queries(raws, n - 1) \o trials_of(raws[n], n)

\* Line 86: list.sort with key (precursor_charge, precursor_mz); the sort is
\* stable.
KeyLess(a, b) ==
    \/ a.precursor_charge < b.precursor_charge
    \/ a.precursor_charge = b.precursor_charge /\ a.precursor_mz < b.precursor_mz

RECURSIVE InsertByKey(_, _)
InsertByKey(x, s) ==
    IF s = <<>> THEN <<x>>
    ELSE IF KeyLess(x, Head(s)) THEN <<x>> \o s
    ELSE <<Head(s)>> \o InsertByKey(x, Tail(s))

\* Variant: a sort that is not stable (a trial is put in front of the trials
\* with an equal key).
RECURSIVE InsertBeforeEqual(_, _)
InsertBeforeEqual(x, s) ==
    IF s = <<>> THEN <<x>>
    ELSE IF ~KeyLess(Head(s), x) THEN <<x>> \o s
    ELSE <<Head(s)>> \o InsertBeforeEqual(x, Tail(s))

RECURSIVE sort_queries_unstable(_)
sort_queries_unstable(s) ==
    IF s = <<>> THEN <<>>
    ELSE InsertBeforeEqual(s[Len(s)], sort_queries_unstable(SubSeq(s, 1, Len(s) - 1)))

RECURSIVE sort_queries(_)
sort_queries(s) ==
    IF s = <<>> THEN <<>>
    ELSE InsertByKey(s[Len(s)], sort_queries(SubSeq(s, 1, Len(s) - 1)))

\* Lines 126-131: the SpectrumMatch of a trial.  With candidates the matcher
\* names the best one and its score; without, sequence stays None.
spectrum_match(query, trial, candidates, score) ==
    [query_id |-> query.query_id,
     precursor_charge |-> query.precursor_charge,
     precursor_mz |-> query.precursor_mz,
     trial |-> trial,
     identified |-> candidates # <<>>,
     search_engine_score |-> IF candidates # <<>> THEN score ELSE None,
     num_candidates |-> Len(candidates)]

\* Position of the key in the dict (0: absent).
KeyPos(matches, query_id) ==
    IF \E i \in 1..Len(matches) : matches[i].query_id = query_id
    THEN CHOOSE i \in 1..Len(matches) : matches[i].query_id = query_id
    ELSE 0

\* Variant: the comparison of the scores is inverted.
retain_worst(matches, m) ==
    LET at == KeyPos(matches, m.query_id)
    IN  IF ~m.identified THEN matches
        ELSE IF at = 0 THEN Append(matches, m)
        ELSE IF m.search_engine_score < matches[at].search_engine_score
             THEN [matches EXCEPT ![at] = m]
        ELSE matches

\* Variant: a better identification is removed and inserted again, which
\* moves its key to the end of the dict.
retain_best_reinserted(matches, m) ==
    LET at == KeyPos(matches, m.query_id)
    IN  IF ~m.identified THEN matches
        ELSE IF at = 0 THEN Append(matches, m)
        ELSE IF m.search_engine_score > matches[at].search_engine_score
             THEN Append(SubSeq(matches, 1, at - 1)
                             \o SubSeq(matches, at + 1, Len(matches)), m)
        ELSE matches

\* Variant: an identification with an equal score replaces the stored one.
retain_best_or_equal(matches, m) ==
    LET at == KeyPos(matches, m.query_id)
    IN  IF ~m.identified THEN matches
        ELSE IF at = 0 THEN Append(matches, m)
        ELSE IF m.search_engine_score >= matches[at].search_engine_score
             THEN [matches EXCEPT ![at] = m]
        ELSE matches

\* Lines 94-99: keep the best identification per query_id.  Assigning to a
\* key the dict already holds keeps the key's place in the iteration order.
retain_best(matches, m) ==
    LET at == KeyPos(matches, m.query_id)
    IN  IF ~m.identified THEN matches
        ELSE IF at = 0 THEN Append(matches, m)
        ELSE IF m.search_engine_score > matches[at].search_engine_score
             THEN [matches EXCEPT ![at] = m]
        ELSE matches

NoThreads ==
    /\ tpc = <<>>
    /\ treq = <<>>
    /\ theld = <<>>
    /\ lock = None

NoSearch ==
    /\ NoThreads
    /\ pc = "idle"
    /\ raw_queries = <<>>
    /\ query_spectra = <<>>
    /\ pos = 0
    /\ query_matches = <<>>
    /\ outcomes = <<>>

SearchInit ==
    /\ NoThreads
    /\ pc = "read"
    /\ raw_queries \in UNION {[1..n -> RawQueries] : n \in 1..MaxQueries}
    /\ query_spectra = <<>>
    /\ pos = 0
    /\ query_matches = <<>>
    /\ outcomes = <<>>

\* Lines 75-86: read the query file, expand the charges, sort.
ReadQueries ==
    /\ pc = "read"
    /\ query_spectra' = sort_queries(read_queries(raw_queries, Len(raw_queries)))
    /\ pc' = "identify"
    /\ UNCHANGED <<sim_vars, engine_vars, cache_vars, filter_vars, thread_vars, open_vars,
                   raw_queries, pos, query_matches, outcomes>>

\* Lines 91-99: one iteration of the identification loop: _find_match on the
\* next trial and the update of query_matches.  An exception raised while the
\* candidates are read leaves search.
FindMatch ==
    /\ pc = "identify"
    /\ pos < Len(query_spectra)
    /\ LET query == query_spectra[pos + 1]
           tol_mass == config.precursor_tolerance_mass
           tol_mode == config.precursor_tolerance_mode
           num_candidates == config.num_candidates
           ann_cutoff == config.ann_cutoff
       IN  \E answer \in AnswersFor(query, tol_mass, tol_mode, num_candidates, ann_cutoff) :
           \E r0 \in {filter_library_candidates(query, tol_mass, tol_mode,
                                                 num_candidates, ann_cutoff, answer, 0)} :
           \E fail_at \in 0..Len(r0.call.candidate_idx) :
           \E r \in {IF fail_at = 0 THEN r0
                      ELSE filter_library_candidates(query, tol_mass, tol_mode,
                                                     num_candidates, ann_cutoff,
                                                     answer, fail_at)} :
               /\ call' = r.call
               /\ current_index' = r.cur
               /\ handles' = r.handles
               /\ events' = r.events
               /\ requests' = r.requests
               /\ last_ret' = r.ret
               /\ UNCHANGED n_shutdowns
               /\ IF r.call.raised # "none"
                  THEN /\ pc' = "raised"
                       /\ UNCHANGED <<pos, query_matches, outcomes>>
                  ELSE \E score \in Scores :
                       \E m \in {spectrum_match(query, pos + 1, r.call.candidates, score)} :
                           /\ pc' = pc
                           /\ pos' = pos + 1
                           /\ outcomes' = Append(outcomes, m)
                           /\ query_matches' = retain_best(query_matches, m)
    /\ n_calls' = n_calls + 1
    /\ UNCHANGED <<sim_vars, engine_vars, thread_vars, open_vars, raw_queries, query_spectra>>

\* Lines 101-103: return query_matches.values().
SearchReturn ==
    /\ pc = "identify"
    /\ pos = Len(query_spectra)
    /\ pc' = "done"
    /\ UNCHANGED <<sim_vars, engine_vars, cache_vars, filter_vars, thread_vars, open_vars,
                   raw_queries, query_spectra, pos, query_matches, outcomes>>
\* One call _get_ann_index(charge) by a single caller.
CallGetAnnIndex(charge, load_ok) ==
    /\ Len(requests) < MaxCalls
    /\ charge \in ann_filenames
    /\ \E r \in {get_ann_index(current_index, handles, charge, load_ok)} :
           /\ current_index' = r.cur
           /\ handles' = r.handles
           /\ events' = events \o r.events
           /\ last_ret' = r.ret
           /\ UNCHANGED n_shutdowns
    /\ requests' = Append(requests, charge)
    /\ UNCHANGED <<sim_vars, engine_vars, filter_vars, search_vars, thread_vars, open_vars>>

GetAnnIndex == \E charge \in Charges : CallGetAnnIndex(charge, TRUE)

\* What shutdown does to the backend objects: the handle of the slot is
\* unloaded if there is one (lines 417-418); _current_index is not assigned.
shutdown(cur, hs) ==
    IF cur.handle # None
    THEN [cur     |-> cur,
          handles |-> UnloadHandle(hs, cur.handle),
          events  |-> <<<<"unload", cur.handle>>>>]
    ELSE [cur |-> cur, handles |-> hs, events |-> <<>>]

\* SpectralLibraryAnnoy.shutdown (lines 410-420); SpectralLibrary.shutdown
\* (lines 55-59) does nothing.
Shutdown ==
    /\ n_shutdowns < MaxShutdowns
    /\ \E r \in {shutdown(current_index, handles)} :
           /\ current_index' = r.cur
           /\ handles' = r.handles
           /\ events' = events \o r.events
    /\ n_shutdowns' = n_shutdowns + 1
    /\ UNCHANGED <<sim_vars, engine_vars, filter_vars, search_vars, thread_vars, open_vars,
                   requests, last_ret>>

GetAnnIndexLoadFails == \E charge \in Charges : CallGetAnnIndex(charge, FALSE)

(***************************************************************************)
(* Threads calling _query_ann (lines 455-467) on one engine.  The body of  *)
(* _get_ann_index runs under _ann_index_lock (line 441); the nearest-      *)
(* neighbour query of line 467 runs on the returned handle after the lock  *)
(* has been released.                                                      *)
(***************************************************************************)
Threads == 1..NThreads

ThreadInit ==
    /\ tpc = [t \in Threads |-> "idle"]
    /\ treq = [t \in Threads |-> None]
    /\ theld = [t \in Threads |-> None]
    /\ lock = None

CallsStarted ==
    Len(requests) + Cardinality({t \in Threads : tpc[t] \in {"wait", "locked"}})

\* Line 466: the thread calls _get_ann_index and waits for the lock.
QueryAnn(t) ==
    /\ tpc[t] = "idle"
    /\ CallsStarted < MaxThreadCalls
    /\ \E charge \in ann_filenames : treq' = [treq EXCEPT ![t] = charge]
    /\ tpc' = [tpc EXCEPT ![t] = "wait"]
    /\ UNCHANGED <<sim_vars, engine_vars, cache_vars, filter_vars, open_vars, theld, lock,
                   pc, raw_queries, query_spectra, pos, query_matches, outcomes>>

\* Line 441: with self._ann_index_lock.
AcquireLock(t) ==
    /\ tpc[t] = "wait"
    /\ lock = None
    /\ lock' = t
    /\ tpc' = [tpc EXCEPT ![t] = "locked"]
    /\ UNCHANGED <<sim_vars, engine_vars, cache_vars, filter_vars, open_vars, treq, theld,
                   pc, raw_queries, query_spectra, pos, query_matches, outcomes>>

\* Lines 442-453: the body under the lock, the return and the release.
GetAnnIndexLocked(t) ==
    /\ tpc[t] = "locked"
    /\ lock = t
    /\ \E r \in {get_ann_index(current_index, handles, treq[t], TRUE)} :
           /\ current_index' = r.cur
           /\ handles' = r.handles
           /\ events' = events \o r.events
           /\ last_ret' = r.ret
           /\ UNCHANGED n_shutdowns
           /\ theld' = [theld EXCEPT ![t] = r.ret.handle]
    /\ requests' = Append(requests, treq[t])
    /\ lock' = None
    /\ tpc' = [tpc EXCEPT ![t] = "query"]
    /\ UNCHANGED <<sim_vars, engine_vars, filter_vars, open_vars, treq,
                   pc, raw_queries, query_spectra, pos, query_matches, outcomes>>

\* Line 467: get_nns_by_vector on the handle; the call returns.
GetNnsByVector(t) ==
    /\ tpc[t] = "query"
    /\ tpc' = [tpc EXCEPT ![t] = "idle"]
    /\ theld' = [theld EXCEPT ![t] = None]
    /\ UNCHANGED <<sim_vars, engine_vars, cache_vars, filter_vars, open_vars, treq, lock,
                   pc, raw_queries, query_spectra, pos, query_matches, outcomes>>

(***************************************************************************)
(* SpectralLibraryAnnoy.__init__ (lines 352-399) and _build_ann_index      *)
(* (lines 401-408).                                                        *)
(***************************************************************************)
\* Lines 366-372: the charges whose index is to be created.
charges_to_create(charges, files, recreated) ==
    {c \in charges : recreated \/ ~files[c].exists}

\* Lines 378-382: the charges an in-memory AnnoyIndex is made for.
charges_with_new_index(charges, create) == charges

\* Lines 384-391: the items added to the in-memory index of a charge: the
\* valid library spectra of the charge, if the charge is to be created.
added_items(lib, create, charge) ==
    IF charge \in create THEN ValidIds(lib, charge) ELSE <<>>

\* Lines 352-391: up to the hand-over of the build tasks to the thread pool.
OpenEngine ==
    /\ open_pc = "closed"
    /\ LET ac     == ann_charges(library, config.ann_cutoff)
           create == charges_to_create(ac, index_files, is_recreated)
           made   == charges_with_new_index(ac, create)
       IN  /\ ann_filenames' = ann_filenames \cup ac
           /\ other_filenames' = other_filenames \ ac
           /\ create_ann_charges' = create
           /\ IF create # {}
              THEN /\ ann_indices' =
                          [c \in Charges |->
                              IF c \in made
                              THEN [made |-> TRUE,
                                    items |-> added_items(library, create, c)]
                              ELSE [made |-> FALSE, items |-> <<>>]]
                   /\ pending' = made
                   /\ open_pc' = "building"
              ELSE /\ ann_indices' = NoIndices
                   /\ pending' = {}
                   /\ open_pc' = "opened"
    /\ UNCHANGED <<sim_vars, library, config, index_files, is_recreated, orig_files,
                   cache_vars, filter_vars, search_vars, thread_vars>>

\* Lines 401-408: a pool thread builds, saves and unloads one index.
BuildAnnIndex ==
    /\ open_pc = "building"
    /\ \E charge \in pending :
           /\ index_files' = [index_files EXCEPT
                                 ![charge] = [exists |-> TRUE,
                                              items |-> ann_indices[charge].items]]
           /\ pending' = pending \ {charge}
    /\ UNCHANGED <<sim_vars, library, config, ann_filenames, other_filenames, open_pc,
                   is_recreated,
                   create_ann_charges, ann_indices, orig_files,
                   cache_vars, filter_vars, search_vars, thread_vars>>

\* Lines 395-399: pool.map returns when every task has run.
OpenDone ==
    /\ open_pc = "building"
    /\ pending = {}
    /\ open_pc' = "opened"
    /\ UNCHANGED <<sim_vars, engine_vars, is_recreated, create_ann_charges, ann_indices,
                   pending, orig_files,
                   cache_vars, filter_vars, search_vars, thread_vars>>

\* Before the engine is opened: any of the index files may exist, each built
\* from the valid library spectra of its charge.
ClosedInit ==
    /\ library \in Libraries
    /\ ids_sorted(library)
    /\ config \in Configs
    /\ is_recreated \in BOOLEAN
    /\ index_files \in
           [Charges -> [exists : BOOLEAN, items : {<<>>}]
                           \cup {[exists |-> TRUE, items |-> ValidIds(library, c)] :
                                    c \in Charges}]
    /\ \A c \in Charges :
           IF index_files[c].exists
           THEN index_files[c].items = ValidIds(library, c)
           ELSE index_files[c].items = <<>>
    /\ orig_files = index_files
    /\ ann_filenames = {}
    /\ other_filenames = {}
    /\ open_pc = "closed"
    /\ create_ann_charges = {}
    /\ ann_indices = NoIndices
    /\ pending = {}

(***************************************************************************)
(* SpectrumSimilarityFactory (spectrum_similarity.py).  m/z values and     *)
(* intensities are integers.  A float result is kept exactly: a quotient   *)
(* as numerator and denominator (denominator 0: numpy's nan or inf), a     *)
(* square root by its radicand, and a call into scipy.stats by its         *)
(* arguments.                                                              *)
(***************************************************************************)
Num(n) == [kind |-> "number", num |-> n, den |-> 1, args |-> <<>>]

Quot(n, d) == [kind |-> "number", num |-> n, den |-> d, args |-> <<>>]

Inf == [kind |-> "inf", num |-> 1, den |-> 0, args |-> <<>>]

Sqrt(n) == [kind |-> "sqrt", num |-> n, den |-> 1, args |-> <<>>]

Term(fn, args) == [kind |-> fn, num |-> 0, den |-> 1, args |-> args]

RECURSIVE SumSeq(_)
SumSeq(s) == IF s = <<>> THEN 0 ELSE Head(s) + SumSeq(Tail(s))

RECURSIVE MaxSeq(_)
MaxSeq(s) ==
    IF Len(s) = 1 THEN s[1]
    ELSE LET m == MaxSeq(Tail(s)) IN IF s[1] >= m THEN s[1] ELSE m

\* The top argument: None, or an integer.
NoTop == [given |-> FALSE, n |-> 0]

Tops == {NoTop} \cup {[given |-> TRUE, n |-> t] : t \in (0 - 1)..(MaxLibraryPeaks + 1)}

\* The intensities of a spectrum: all different (2, 3, 1, 2, ...), with ties
\* (1, 2, 1, 2, ...), or with peaks of intensity 0 (1, 0, 1, 0, ...).
IntensityAt(p, i) ==
    IF p = 1 THEN (i % 3) + 1 ELSE IF p = 2 THEN 2 - (i % 2) ELSE i % 2

Spectra(max_peaks, offsets) ==
    {[mz |-> [i \in 1..n |-> 100 * i + off],
      intensity |-> [i \in 1..n |-> IntensityAt(p, i)]] :
        n \in 1..max_peaks, p \in {1, 2, 3}, off \in offsets}

\* ssm.peak_matches: an array of k >= 0 rows <<query peak, library peak>>
\* (0-based); a peak is in at most one row; the rows are in the order the
\* aligner emitted them.
PeakMatchSets(nq, nl) ==
    {m \in UNION {[1..k -> (0..(nq - 1)) \X (0..(nl - 1))] : k \in 0..Min(nq, nl)} :
        \A i, j \in 1..Len(m) :
            i # j => m[i][1] # m[j][1] /\ m[i][2] # m[j][2]}

SSMs ==
    UNION {{[query_spectrum |-> ql[1], library_spectrum |-> ql[2], peak_matches |-> m] :
               m \in PeakMatchSets(Len(ql[1].mz), Len(ql[2].mz))} :
           ql \in Spectra(MaxQueryPeaks, {0, 1}) \X Spectra(MaxLibraryPeaks, {0})}

\* arr[peak_matches[:, col]]
Take(arr, matches, col) == [i \in 1..Len(matches) |-> arr[matches[i][col] + 1]]

\* np.argpartition(int2, -top): kth must lie in [-n, n).
kth_in_bounds(int2, top) == 0 - Len(int2) <= 0 - top /\ 0 - top < Len(int2)

\* np.argpartition(int2, -top)[-top:] as a set of peak numbers: the slice
\* holds top entries (all for top = 0, n + top for a negative top), no entry
\* outside it is more intense than an entry inside; which of several equally
\* intense peaks it holds is up to the selection algorithm.
library_top(int2, top) ==
    LET n    == Len(int2)
        size == IF top > 0 THEN top ELSE n + top
    IN  {S \in SUBSET (0..(n - 1)) :
            /\ Cardinality(S) = size
            /\ \A i \in S : \A j \in (0..(n - 1)) \ S : int2[i + 1] >= int2[j + 1]}

\* arr[mask] with mask = np.isin(peak_matches[:, 1], library_top_i)
Masked(arr, matches, library_top_i) ==
    LET keep == {i \in 1..Len(matches) : matches[i][2] \in library_top_i}
        RECURSIVE pick(_)
        pick(i) == IF i > Len(matches) THEN <<>>
                   ELSE (IF i \in keep THEN <<arr[i]>> ELSE <<>>) \o pick(i + 1)
    IN  pick(1)

NoFactory ==
    [status |-> "none", top |-> NoTop, matched_none |-> TRUE,
     matched_mz1 |-> <<>>, matched_int1 |-> <<>>,
     matched_mz2 |-> <<>>, matched_int2 |-> <<>>]

\* __init__ (lines 12-50).  library_top_i is the selection argpartition makes.
factory_init(s, top, library_top_i) ==
    LET pm   == s.peak_matches
        mz1  == Take(s.query_spectrum.mz, pm, 1)
        int1 == Take(s.query_spectrum.intensity, pm, 1)
        mz2  == Take(s.library_spectrum.mz, pm, 2)
        int2 == Take(s.library_spectrum.intensity, pm, 2)
    IN  IF Len(pm) > 0
        THEN IF ~top.given
             THEN [status |-> "built", top |-> top, matched_none |-> FALSE,
                   matched_mz1 |-> mz1, matched_int1 |-> int1,
                   matched_mz2 |-> mz2, matched_int2 |-> int2]
             ELSE IF ~kth_in_bounds(s.library_spectrum.intensity, top.n)
             THEN [NoFactory EXCEPT !.status = "ValueError", !.top = top]
             ELSE [status |-> "built", top |-> top, matched_none |-> FALSE,
                   matched_mz1 |-> Masked(mz1, pm, library_top_i),
                   matched_int1 |-> Masked(int1, pm, library_top_i),
                   matched_mz2 |-> Masked(mz2, pm, library_top_i),
                   matched_int2 |-> Masked(int2, pm, library_top_i)]
        ELSE [NoFactory EXCEPT !.status = "built", !.top = top]

\* The selections argpartition can make in a call with this top (one dummy
\* selection where it is not called or raises).
TopSelections(s, top) ==
    IF Len(s.peak_matches) > 0 /\ top.given
          /\ kth_in_bounds(s.library_spectrum.intensity, top.n)
    THEN library_top(s.library_spectrum.intensity, top.n)
    ELSE {{}}

\* The peak numbers of a spectrum of n peaks that are in no row of
\* peak_matches (np.setdiff1d), as the intensities at them.
Unmatched(intensity, matches, col) ==
    LET used == {matches[i][col] + 1 : i \in 1..Len(matches)}
    IN  SelectSeq([i \in 1..Len(intensity) |-> <<i, intensity[i]>>],
                  LAMBDA x : x[1] \notin used)

UnmatchedInt(intensity, matches, col) ==
    LET u == Unmatched(intensity, matches, col)
    IN  [i \in 1..Len(u) |-> u[i][2]]

\* query.intensity[peak_matches[:, 0]] and library.intensity[peak_matches[:, 1]]
Iq(s) == Take(s.query_spectrum.intensity, s.peak_matches, 1)

Il(s) == Take(s.library_spectrum.intensity, s.peak_matches, 2)

Uq(s) == UnmatchedInt(s.query_spectrum.intensity, s.peak_matches, 1)

Ul(s) == UnmatchedInt(s.library_spectrum.intensity, s.peak_matches, 2)

AbsDiff(a, b) == [i \in 1..Len(a) |-> Abs(a[i] - b[i])]

SqDiff(a, b) == [i \in 1..Len(a) |-> (a[i] - b[i]) * (a[i] - b[i])]

Squares(a) == [i \in 1..Len(a) |-> a[i] * a[i]]

\* Lines 52-69.
cosine(f) ==
    IF ~f.matched_none
    THEN Num(SumSeq([i \in 1..Len(f.matched_int1) |-> f.matched_int1[i] * f.matched_int2[i]]))
    ELSE Num(0)

\* Lines 71-80.
n_matched_peaks(f) == IF ~f.matched_none THEN Num(Len(f.matched_mz1)) ELSE Num(0)

\* Lines 82-110.
frac_n_peaks_query(s, f) ==
    IF ~f.matched_none THEN Quot(Len(f.matched_mz1), Len(s.query_spectrum.mz)) ELSE Num(0)

frac_n_peaks_library(s, f) ==
    IF ~f.matched_none THEN Quot(Len(f.matched_mz2), Len(s.library_spectrum.mz)) ELSE Num(0)

\* Lines 112-138.
frac_intensity_query(s, f) ==
    IF ~f.matched_none
    THEN Quot(SumSeq(f.matched_int1), SumSeq(s.query_spectrum.intensity))
    ELSE Num(0)

frac_intensity_library(s, f) ==
    IF ~f.matched_none
    THEN Quot(SumSeq(f.matched_int2), SumSeq(s.library_spectrum.intensity))
    ELSE Num(0)

\* What a call returns or raises.
Returns(v) == [raised |-> "none", value |-> v]

Raises(e) == [raised |-> e, value |-> Num(0)]

\* Variant: the sentinel of the empty match is returned before the axis is
\* looked at.
mean_squared_error_sentinel_first(s, f, axis) ==
    IF f.matched_none THEN Returns(Inf)
    ELSE IF axis = "mz"
         THEN Returns(Quot(SumSeq(SqDiff(f.matched_mz1, f.matched_mz2)),
                           Len(s.query_spectrum.mz)))
    ELSE IF axis = "intensity"
         THEN Returns(Quot(SumSeq(SqDiff(f.matched_int1, f.matched_int2)),
                           Len(s.query_spectrum.mz)))
    ELSE Raises("ValueError")

\* Lines 140-170.
mean_squared_error(s, f, axis) ==
    IF axis \notin {"mz", "intensity"} THEN Raises("ValueError")
    ELSE IF f.matched_none THEN Returns(Inf)
    ELSE IF axis = "mz"
         THEN Returns(Quot(SumSeq(SqDiff(f.matched_mz1, f.matched_mz2)),
                           Len(s.query_spectrum.mz)))
    ELSE Returns(Quot(SumSeq(SqDiff(f.matched_int1, f.matched_int2)),
                      Len(s.query_spectrum.mz)))

\* scipy.special.comb(n, k): 0 outside 0 <= k <= n.
RECURSIVE comb(_, _)
comb(n, k) ==
    IF k < 0 \/ n < 0 \/ k > n THEN 0
    ELSE IF k = 0 THEN 1
    ELSE (comb(n - 1, k - 1) * n) \div k

RECURSIVE hypergeometric_sum(_, _, _, _)
hypergeometric_sum(i, stop, n_library_peaks, n_peak_bins) ==
    IF i >= stop THEN 0
    ELSE comb(n_library_peaks, i)
             * comb(n_peak_bins - n_library_peaks, n_library_peaks - i)
         + hypergeometric_sum(i + 1, stop, n_library_peaks, n_peak_bins)

\* Variant: the sum includes the term i = n_library_peaks.
hypergeometric_score_inclusive(s, n_peak_bins) ==
    LET n_library_peaks == Len(s.library_spectrum.mz)
        n_matched       == Len(s.peak_matches)
    IN  Quot(hypergeometric_sum(n_matched + 1, n_library_peaks + 1,
                                n_library_peaks, n_peak_bins),
             comb(n_peak_bins, n_library_peaks))

\* Lines 189-229; n_peak_bins is what spectrum.get_dim gives for the arguments.
hypergeometric_score(s, n_peak_bins) ==
    LET n_library_peaks == Len(s.library_spectrum.mz)
        n_matched       == Len(s.peak_matches)
    IN  Quot(hypergeometric_sum(n_matched + 1, n_library_peaks,
                                n_library_peaks, n_peak_bins),
             comb(n_peak_bins, n_library_peaks))

\* Lines 232-258.
kendalltau(s) ==
    IF Len(s.peak_matches) = 0 THEN Num(0 - 1)
    ELSE Term("scipy.stats.kendalltau", <<Iq(s), Il(s)>>)

\* Lines 261-336.
ms_for_id_v1(s) ==
    IF Len(s.peak_matches) = 0 THEN Num(0)
    ELSE Term("ms_for_id_v1",
              <<<<Len(s.peak_matches), Len(s.query_spectrum.mz),
                  Len(s.library_spectrum.mz), SumSeq(AbsDiff(Iq(s), Il(s)))>>>>)

ms_for_id_v2(s) ==
    IF Len(s.peak_matches) = 0 THEN Num(0)
    ELSE Term("ms_for_id_v2",
              <<<<Len(s.peak_matches),
                  SumSeq(s.query_spectrum.intensity)
                      + 2 * SumSeq(s.library_spectrum.intensity),
                  Len(s.query_spectrum.mz) + 2 * Len(s.library_spectrum.mz),
                  SumSeq(AbsDiff(Iq(s), Il(s))),
                  SumSeq(AbsDiff(Take(s.query_spectrum.mz, s.peak_matches, 1),
                                 Take(s.library_spectrum.mz, s.peak_matches, 2)))>>>>)

\* Variant: every peak counts as a peak without a match.
manhattan_all_unmatched(s) ==
    Num(SumSeq(AbsDiff(Iq(s), Il(s))) + SumSeq(s.query_spectrum.intensity)
            + SumSeq(s.library_spectrum.intensity))

\* Lines 339-374.
manhattan(s) == Num(SumSeq(AbsDiff(Iq(s), Il(s))) + SumSeq(Uq(s)) + SumSeq(Ul(s)))

\* Lines 376-421.
euclidean(s) ==
    Sqrt(SumSeq(SqDiff(Iq(s), Il(s))) + SumSeq(Squares(Uq(s))) + SumSeq(Squares(Ul(s))))

\* Lines 423-468 (max of an empty array raises).
chebyshev(s) ==
    LET dist == AbsDiff(Iq(s), Il(s)) \o Uq(s) \o Ul(s)
    IN  IF dist = <<>> THEN Raises("ValueError") ELSE Returns(Num(MaxSeq(dist)))

\* Lines 470-539: the body pearsonr and spearmanr share.
correlation(fn, s, top, library_top_i) ==
    LET peaks_query   == IF top.given THEN Masked(Iq(s), s.peak_matches, library_top_i)
                         ELSE Iq(s)
        peaks_library == IF top.given THEN Masked(Il(s), s.peak_matches, library_top_i)
                         ELSE Il(s)
    IN  IF top.given /\ ~kth_in_bounds(s.library_spectrum.intensity, top.n)
        THEN Raises("ValueError")
        ELSE IF Len(peaks_query) > 1
             THEN Returns(Term(fn, <<peaks_query, peaks_library>>))
             ELSE Returns(Num(0))

pearsonr(s, top, library_top_i) == correlation("scipy.stats.pearsonr", s, top, library_top_i)

spearmanr(s, top, library_top_i) == correlation("scipy.stats.spearmanr", s, top, library_top_i)

\* Lines 541-584.
braycurtis(s) ==
    Quot(SumSeq(AbsDiff(Iq(s), Il(s))) + SumSeq(Uq(s)) + SumSeq(Ul(s)),
         SumSeq(Iq(s)) + SumSeq(Il(s)) + SumSeq(Uq(s)) + SumSeq(Ul(s)))

\* scipy.spatial.distance.canberra: nansum of |u - v| / (|u| + |v|), as a
\* quotient <<numerator, denominator>>.
RECURSIVE scipy_canberra(_, _)
scipy_canberra(u, v) ==
    IF u = <<>> THEN <<0, 1>>
    ELSE LET rest == scipy_canberra(Tail(u), Tail(v))
             d    == Abs(u[1]) + Abs(v[1])
         IN  IF d = 0 THEN rest
             ELSE <<rest[1] * d + Abs(u[1] - v[1]) * rest[2], rest[2] * d>>

\* Lines 586-607.
canberra(s) ==
    LET dist   == scipy_canberra(Iq(s), Il(s))
        unused == (Len(s.query_spectrum.mz) - Len(s.peak_matches))
                      + (Len(s.library_spectrum.mz) - Len(s.peak_matches))
    IN  Quot(dist[1] + unused * dist[2], dist[2])

\* Lines 609-646.
ruzicka(s) ==
    Quot(SumSeq([i \in 1..Len(s.peak_matches) |-> Min(Iq(s)[i], Il(s)[i])]),
         SumSeq([i \in 1..Len(s.peak_matches) |->
                    IF Iq(s)[i] >= Il(s)[i] THEN Iq(s)[i] ELSE Il(s)[i]])
             + SumSeq(Uq(s)) + SumSeq(Ul(s)))

NoResult == [metric |-> "none", arg |-> <<>>, raised |-> "none", value |-> Num(0)]

NoSim ==
    /\ ssm = [query_spectrum |-> [mz |-> <<>>, intensity |-> <<>>],
              library_spectrum |-> [mz |-> <<>>, intensity |-> <<>>],
              peak_matches |-> <<>>]
    /\ factory = NoFactory
    /\ result = NoResult

SimInit ==
    /\ ssm \in SSMs
    /\ factory = NoFactory
    /\ result = NoResult

\* SpectrumSimilarityFactory(ssm, top)
NewFactory ==
    /\ factory.status = "none"
    /\ \E top \in Tops : \E library_top_i \in TopSelections(ssm, top) :
           factory' = factory_init(ssm, top, library_top_i)
    /\ UNCHANGED <<ssm, result, engine_vars, cache_vars, filter_vars, search_vars,
                   thread_vars, open_vars>>

\* The methods without arguments.
PlainMetrics ==
    {"cosine", "n_matched_peaks", "frac_n_peaks_query", "frac_n_peaks_library",
     "frac_intensity_query", "frac_intensity_library", "kendalltau", "ms_for_id_v1",
     "ms_for_id_v2", "manhattan", "euclidean", "chebyshev", "braycurtis", "canberra",
     "ruzicka"}

plain_metric(name, s, f) ==
    CASE name = "cosine"                 -> Returns(cosine(f))
      [] name = "n_matched_peaks"        -> Returns(n_matched_peaks(f))
      [] name = "frac_n_peaks_query"     -> Returns(frac_n_peaks_query(s, f))
      [] name = "frac_n_peaks_library"   -> Returns(frac_n_peaks_library(s, f))
      [] name = "frac_intensity_query"   -> Returns(frac_intensity_query(s, f))
      [] name = "frac_intensity_library" -> Returns(frac_intensity_library(s, f))
      [] name = "kendalltau"             -> Returns(kendalltau(s))
      [] name = "ms_for_id_v1"           -> Returns(ms_for_id_v1(s))
      [] name = "ms_for_id_v2"           -> Returns(ms_for_id_v2(s))
      [] name = "manhattan"              -> Returns(manhattan(s))
      [] name = "euclidean"              -> Returns(euclidean(s))
      [] name = "chebyshev"              -> chebyshev(s)
      [] name = "braycurtis"             -> Returns(braycurtis(s))
      [] name = "canberra"               -> Returns(canberra(s))
      [] name = "ruzicka"                -> Returns(ruzicka(s))

\* Arguments of the methods that take one.
Axes == {"mz", "intensity", "rt"}

PeakBins == {5, 100}

MetricTops == {NoTop, [given |-> TRUE, n |-> 1], [given |-> TRUE, n |-> MaxLibraryPeaks + 1]}

Called(name, arg, r) == [metric |-> name, arg |-> arg, raised |-> r.raised, value |-> r.value]

SimUnchanged ==
    UNCHANGED <<ssm, factory, engine_vars, cache_vars, filter_vars, search_vars,
                thread_vars, open_vars>>

\* The methods read the factory and the match and change neither, so the
\* result of every call shows in the first call made on a factory.
FirstCall == factory.status = "built" /\ result.metric = "none"

\* A call of one of the methods without arguments on the factory.
CallMetric ==
    /\ FirstCall
    /\ \E name \in PlainMetrics :
           result' = Called(name, <<>>, plain_metric(name, ssm, factory))
    /\ SimUnchanged

CallMeanSquaredError ==
    /\ FirstCall
    /\ \E axis \in Axes :
           result' = Called("mean_squared_error", <<axis>>,
                            mean_squared_error(ssm, factory, axis))
    /\ SimUnchanged

CallHypergeometricScore ==
    /\ FirstCall
    /\ \E n_peak_bins \in PeakBins :
           result' = Called("hypergeometric_score", <<n_peak_bins>>,
                            Returns(hypergeometric_score(ssm, n_peak_bins)))
    /\ SimUnchanged

\* The selections argpartition can make in pearsonr and spearmanr.
CorrelationSelections(s, top) ==
    IF top.given /\ kth_in_bounds(s.library_spectrum.intensity, top.n)
    THEN library_top(s.library_spectrum.intensity, top.n)
    ELSE {{}}

CallCorrelation ==
    /\ FirstCall
    /\ \E top \in MetricTops : \E library_top_i \in CorrelationSelections(ssm, top) :
           \/ result' = Called("pearsonr", <<top>>, pearsonr(ssm, top, library_top_i))
           \/ result' = Called("spearmanr", <<top>>, spearmanr(ssm, top, library_top_i))
    /\ SimUnchanged

(***************************************************************************)
(* SimSpec: a SpectrumSimilarityFactory is constructed on a spectrum-      *)
(* spectrum match with any top, and its methods are called.                *)
(***************************************************************************)
SimSpecInit ==
    /\ CacheInit
    /\ EngineInit({LibA}, {c \in Configs : c.ann_cutoff = 0 /\ c.num_candidates = 2})
    /\ FilterInit
    /\ NoSearch
    /\ SimInit

SimNext ==
    NewFactory \/ CallMetric \/ CallMeanSquaredError \/ CallHypergeometricScore
        \/ CallCorrelation

SimSpec == SimSpecInit /\ [][SimNext]_vars

(***************************************************************************)
(* CacheSpec: any sequence of successful _get_ann_index calls.             *)
(* CacheFailSpec: the same, where index.load() may raise.                  *)
(***************************************************************************)
CacheSpecInit ==
    /\ CacheInit
    /\ NoSim
    /\ EngineInit({LibA}, {c \in Configs : c.ann_cutoff = 0 /\ c.num_candidates = 2})
    /\ FilterInit
    /\ NoSearch

CacheNext == GetAnnIndex

CacheSpec == CacheSpecInit /\ [][CacheNext]_vars

CacheFailNext == GetAnnIndex \/ GetAnnIndexLoadFails

CacheFailSpec == CacheSpecInit /\ [][CacheFailNext]_vars

(***************************************************************************)
(* A single caller of _get_ann_index and of shutdown on one engine.        *)
(***************************************************************************)
ShutdownNext == GetAnnIndex \/ Shutdown

ShutdownSpec == CacheSpecInit /\ [][ShutdownNext]_vars

(***************************************************************************)
(* FilterSpec: any sequence of _filter_library_candidates calls on one     *)
(* opened engine, with any query and any setting of the arguments.         *)
(***************************************************************************)
FilterSpecInit ==
    /\ CacheInit
    /\ NoSim
    /\ EngineInit({LibB}, {c \in Configs : c.num_candidates = 2})
    /\ FilterInit
    /\ NoSearch

FilterNext == FilterLibraryCandidates

FilterSpec == FilterSpecInit /\ [][FilterNext]_vars

(***************************************************************************)
(* MassFilterSpec: _get_mass_filter_idx called on an opened engine with    *)
(* any mass, charge and window.                                            *)
(***************************************************************************)
\* Masses and windows of the calls; the windows put library masses on, inside
\* and outside the bound.
FilterMasses == {99, 100, 101, 102}

MassWindows ==
    {<<0, "Da">>, <<1, "Da">>, <<2, "Da">>, <<9950, "ppm">>, <<10000, "ppm">>,
     <<0, "none">>}

\* One call of _get_mass_filter_idx (lines 158-180); the result is kept in the
\* call record.
GetMassFilterIdx ==
    /\ n_calls < MaxFilterCalls
    /\ \E charge \in Charges, mass \in FilterMasses, tol \in MassWindows :
           call' = [NoCall EXCEPT
                       !.query = [query_id |-> n_calls + 1, precursor_charge |-> charge,
                                  precursor_mz |-> mass],
                       !.tol_mass = tol[1],
                       !.tol_mode = tol[2],
                       !.mass_filter = get_mass_filter_idx(library, mass, charge,
                                                           tol[1], tol[2])]
    /\ n_calls' = n_calls + 1
    /\ UNCHANGED <<sim_vars, engine_vars, cache_vars, search_vars, thread_vars, open_vars>>

MassFilterSpecInit ==
    /\ CacheInit
    /\ NoSim
    /\ EngineInit(Libraries, {c \in Configs : c.ann_cutoff = 0 /\ c.num_candidates = 2})
    /\ FilterInit
    /\ NoSearch

MassFilterNext == GetMassFilterIdx

MassFilterSpec == MassFilterSpecInit /\ [][MassFilterNext]_vars

(***************************************************************************)
(* ThreadSpec: threads calling _query_ann concurrently on an opened engine.*)
(***************************************************************************)
ThreadSpecInit ==
    /\ CacheInit
    /\ NoSim
    /\ EngineInit({LibA}, {c \in Configs : c.ann_cutoff = 0 /\ c.num_candidates = 2})
    /\ FilterInit
    /\ pc = "idle"
    /\ raw_queries = <<>>
    /\ query_spectra = <<>>
    /\ pos = 0
    /\ query_matches = <<>>
    /\ outcomes = <<>>
    /\ ThreadInit

ThreadNext ==
    \E t \in Threads :
        QueryAnn(t) \/ AcquireLock(t) \/ GetAnnIndexLocked(t) \/ GetNnsByVector(t)

ThreadSpec == ThreadSpecInit /\ [][ThreadNext]_vars

(***************************************************************************)
(* OpenSpec: opening the engine on a library, with any of the index files  *)
(* present or missing.                                                     *)
(***************************************************************************)
OpenSpecInit == CacheInit /\ NoSim /\ FilterInit /\ NoSearch /\ ClosedInit

OpenNext == OpenEngine \/ BuildAnnIndex \/ OpenDone

OpenSpec == OpenSpecInit /\ [][OpenNext]_vars

(***************************************************************************)
(* A second instance of the class in the same process.  _ann_filenames is  *)
(* a class attribute (line 233) that no __init__ rebinds, so line 368 of   *)
(* every instance assigns into the same dict.  The second instance is      *)
(* opened on another library file, so that the file names it assigns are   *)
(* not those of the first instance and the files it builds are its own.    *)
(***************************************************************************)
OtherCutoffs == {0, 1}

\* Lines 364-368 of the __init__ of the other instance.
OpenOtherEngine ==
    /\ open_pc \in {"closed", "opened"}
    /\ \E other_library \in Libraries \ {library} : \E other_cutoff \in OtherCutoffs :
           \E ac \in {ann_charges(other_library, other_cutoff)} :
               /\ ann_filenames' = ann_filenames \cup ac
               /\ other_filenames' = other_filenames \cup ac
    /\ UNCHANGED <<sim_vars, library, config, index_files, open_vars,
                   cache_vars, filter_vars, search_vars, thread_vars>>

TwoEngineNext == OpenNext \/ OpenOtherEngine

TwoEngineSpec == OpenSpecInit /\ [][TwoEngineNext]_vars

(***************************************************************************)
(* Spec: one search run on an opened engine.                               *)
(***************************************************************************)
SearchConfigs == {c \in Configs : c.ann_cutoff = 1 /\ c.num_candidates = 2}

Init ==
    /\ CacheInit
    /\ NoSim
    /\ EngineInit({LibA}, SearchConfigs)
    /\ FilterInit
    /\ SearchInit

Next == ReadQueries \/ FindMatch \/ SearchReturn

Spec == Init /\ [][Next]_vars

(***************************************************************************)
(* LoadSpec: the index loads of either one search run, whose requests are  *)
(* those of the sorted trials, or of _get_ann_index called directly in any *)
(* order of charges.  search is one synchronous call, so the direct calls  *)
(* happen only on an engine that runs no search.                           *)
(***************************************************************************)
LoadSpecInit == Init \/ CacheSpecInit

LoadNext == Next \/ (pc = "idle" /\ GetAnnIndex)

LoadSpec == LoadSpecInit /\ [][LoadNext]_vars

(***************************************************************************)
(* Properties of the single-slot cache.                                    *)
(***************************************************************************)
LoadedHandles == {h \in 1..Len(handles) : handles[h].loaded}

NLoads == CountIf(events, "load")

NUnloads == CountIf(events, "unload")

\* The handles the backend holds loaded after the first n events of the log.
LoadedAfter(n) ==
    {h \in 1..Len(handles) :
        \E i \in 1..n :
            /\ events[i] = <<"load", h>>
            /\ \A j \in (i+1)..n : events[j] # <<"unload", h>>}

\* Positions of the request sequence whose charge differs from the charge
\* requested just before (the first request differs from the empty cache).
Transitions(s) == Cardinality({i \in 1..Len(s) : i = 1 \/ s[i] # s[i-1]})

IsSortedSeq(s) == \A i \in 1..(Len(s) - 1) : s[i] <= s[i+1]

\* The slot after at least one call: the charge requested last, on a loaded
\* handle of that charge, which is also what the call returned.
SlotHoldsLastRequest ==
    requests # <<>> =>
        /\ current_index.charge = requests[Len(requests)]
        /\ current_index.handle \in LoadedHandles
        /\ handles[current_index.handle].charge = current_index.charge
        /\ last_ret = [handle |-> current_index.handle,
                       hit |-> last_ret.hit, raised |-> FALSE]

\* One call: a request for the cached charge touches nothing and returns the
\* cached handle; any other request unloads the cached handle (if any) and
\* only then loads the new one.
CacheStep ==
    LET charge == requests'[Len(requests')]
        fresh  == Len(handles) + 1
    IN  requests' # requests =>
            IF charge = current_index.charge
            THEN /\ events' = events
                 /\ handles' = handles
                 /\ current_index' = current_index
                 /\ last_ret'.handle = current_index.handle
                 /\ last_ret'.hit
            ELSE /\ events' = events
                        \o (IF current_index.handle # None
                            THEN <<<<"unload", current_index.handle>>>> ELSE <<>>)
                        \o <<<<"load", fresh>>>>
                 /\ current_index' = [charge |-> charge, handle |-> fresh]
                 /\ last_ret'.handle = fresh
                 /\ ~last_ret'.hit

\* C1: after any sequence of successful _get_ann_index calls at most one index
\* is loaded (at every point of the backend log, so the old index is unloaded
\* before the new one is loaded), the slot holds the charge requested last, a
\* request for the cached charge returns the cached handle without load or
\* unload, and a request for another charge unloads the cached handle and
\* loads and caches the new one.
C1_SingleSlotCache ==
    /\ [](Cardinality(LoadedHandles) <= 1)
    /\ [](\A n \in 0..Len(events) : Cardinality(LoadedAfter(n)) <= 1)
    /\ []SlotHoldsLastRequest
    /\ [][CacheStep]_vars

\* A hit on the cached charge after the cache switched charges at least once.
C1_Witness ==
    /\ last_ret.hit
    /\ NUnloads >= 1
    /\ Len(requests) >= 3

\* The charges of the trials of the query file in file order, before line 86
\* sorts them.
FileOrderCharges ==
    LET qs == read_queries(raw_queries, Len(raw_queries))
    IN  [i \in 1..Len(qs) |-> qs[i].precursor_charge]

\* C2: in a search run the index of every charge that is looked up is loaded
\* exactly once; in general the number of index loads equals the number of
\* charge transitions of the request sequence, whatever its order, which for
\* a charge-sorted sequence is the number of distinct charges.
C2_LoadsEqualTransitions ==
    /\ pc # "idle" =>
           /\ IsSortedSeq(requests)
           /\ NLoads = Cardinality(Range(requests))
    /\ NLoads = Transitions(requests)
    /\ IsSortedSeq(requests) => NLoads = Cardinality(Range(requests))
    /\ \A c \in Range(requests) :
           IsSortedSeq(requests) =>
               Cardinality({h \in 1..Len(handles) : handles[h].charge = c}) = 1

\* A finished search run in which every trial looked up the ANN index, the
\* query file held the charges out of order, and the three lookups over two
\* charges loaded two indexes.
C2_WitnessSorted ==
    /\ pc = "done"
    /\ ~IsSortedSeq(FileOrderCharges)
    /\ Len(query_spectra) >= 3
    /\ Len(requests) = Len(query_spectra)
    /\ Cardinality(Range(requests)) = 2
    /\ NLoads = 2

\* Direct requests out of charge order: more loads than distinct charges.
C2_WitnessShuffled ==
    /\ pc = "idle"
    /\ ~IsSortedSeq(requests)
    /\ NLoads > Cardinality(Range(requests))

\* C8 (as claimed): a failed load leaves the slot empty, and the slot never
\* reports a charge whose handle is not loaded.
C8_FailedLoadEmptiesCache ==
    /\ last_ret.raised => current_index = [charge |-> None, handle |-> None]
    /\ current_index.handle # None => current_index.handle \in LoadedHandles
    /\ (requests # <<>> /\ ~last_ret.raised) => last_ret.handle \in LoadedHandles

(***************************************************************************)
(* Properties of the candidate filter, stated on the last call.            *)
(***************************************************************************)
\* The library entries of the query's charge inside the precursor window.
InWindow(e, query, tol_mass, tol_mode) ==
    /\ e.charge = query.precursor_charge
    /\ tol_mode = "Da" =>
           Abs(query.precursor_mz - e.mass) * query.precursor_charge <= tol_mass
    /\ tol_mode = "ppm" =>
           Abs(query.precursor_mz - e.mass) * 10^6 <= tol_mass * e.mass

MassWindowIds ==
    {e.id : e \in {x \in Range(library) :
                      InWindow(x, call.query, call.tol_mass, call.tol_mode)}}

\* The library ids the returned ANN item numbers stand for.
AnnNeighbourIds ==
    {Ids(spec_info(library, call.query.precursor_charge))[a + 1] :
        a \in Range(call.ann_charge_ids)}

ValidLibraryIds == {e.id : e \in {x \in Range(library) : x.valid}}

Returned == n_calls > 0 /\ call.raised = "none"

\* C4: every candidate a call returns is a valid library spectrum inside the
\* mass window of the query; when the ANN index was used the candidates are
\* exactly the valid ids that are both in the mass window and among the
\* translated ANN neighbours, and otherwise exactly the valid ids of the window.
C4_CandidatesWithinMassFilter ==
    Returned =>
        /\ Range(call.candidates) \subseteq (MassWindowIds \cap ValidLibraryIds)
        /\ Range(call.mass_filter) = MassWindowIds
        /\ call.used_ann =>
               Range(call.candidates) =
                   (MassWindowIds \cap AnnNeighbourIds) \cap ValidLibraryIds
        /\ ~call.used_ann =>
               Range(call.candidates) = MassWindowIds \cap ValidLibraryIds

\* An ANN-refined call that returned candidates, dropped an id of the mass
\* window the ANN did not return, and got a neighbour outside the window.
C4_Witness ==
    /\ Returned
    /\ call.used_ann
    /\ call.candidates # <<>>
    /\ \E id \in MassWindowIds \cap ValidLibraryIds : id \notin Range(call.candidates)
    /\ \E id \in AnnNeighbourIds : id \notin MassWindowIds

IndexExists(charge) == index_files[charge].exists

\* The mass-filter hits in library order.
MassWindowSeq ==
    Ids(SelectSeq(library,
                  LAMBDA e : InWindow(e, call.query, call.tol_mass, call.tol_mode)))

\* One call that did not use the ANN index leaves the cache and the backend
\* untouched; one that did requests the index of the query's charge.
AnnOnlyWhenUsed ==
    n_calls' # n_calls =>
        IF call'.used_ann
        THEN /\ requests' = Append(requests, call'.query.precursor_charge)
             /\ last_ret'.handle = current_index'.handle
        ELSE /\ UNCHANGED cache_vars
             /\ call'.ann_charge_ids = <<>>

IdentifiedTrials(query_id) ==
    {i \in 1..Len(outcomes) : outcomes[i].query_id = query_id /\ outcomes[i].identified}

MaxScore(query_id) ==
    CHOOSE sc \in {outcomes[i].search_engine_score : i \in IdentifiedTrials(query_id)} :
        \A i \in IdentifiedTrials(query_id) : outcomes[i].search_engine_score <= sc

QueryIds == {outcomes[i].query_id : i \in 1..Len(outcomes)}

\* C3: search returns at most one identification per query_id; every query_id
\* with an identified trial is returned with the maximum score over its
\* identified trials; what is returned is an identified trial, so a trial
\* without library match neither appears nor displaces an identified one.
C3_BestIdentificationPerQuery ==
    pc = "done" =>
        /\ \A i, j \in 1..Len(query_matches) :
               query_matches[i].query_id = query_matches[j].query_id => i = j
        /\ \A q \in QueryIds :
               IdentifiedTrials(q) # {} =>
                   \E i \in 1..Len(query_matches) :
                       /\ query_matches[i].query_id = q
                       /\ query_matches[i].search_engine_score = MaxScore(q)
        /\ \A i \in 1..Len(query_matches) :
               /\ query_matches[i].identified
               /\ query_matches[i] \in Range(outcomes)

\* A finished run in which a query_id had a better trial followed by a worse
\* one, and another query_id an identified trial followed by a trial without
\* library match.
C3_Witness ==
    /\ pc = "done"
    /\ \E i, j \in 1..Len(outcomes) :
           /\ i < j
           /\ outcomes[i].query_id = outcomes[j].query_id
           /\ outcomes[i].identified /\ outcomes[j].identified
           /\ outcomes[i].search_engine_score > outcomes[j].search_engine_score
    /\ \E i, j \in 1..Len(outcomes) :
           /\ i < j
           /\ outcomes[i].query_id = outcomes[j].query_id
           /\ outcomes[i].identified /\ ~outcomes[j].identified

\* C9 (as claimed): a candidate whose read fails is skipped, the query gets
\* all other valid candidates and the search goes on.
C9_ReadFailureSkipsCandidate ==
    (n_calls > 0 /\ call.failed_id # None) =>
        /\ pc \in {"identify", "done"}
        /\ Range(call.candidates) =
               (Range(call.candidate_idx) \ {call.failed_id}) \cap ValidLibraryIds

\* C10 (as claimed): the identifications are returned in the order in which
\* their retained trials were processed.
C10_OrderOfRetainedTrials ==
    pc = "done" =>
        \A i, j \in 1..Len(query_matches) :
            i < j => query_matches[i].trial < query_matches[j].trial

FirstIdentifiedTrial(query_id) ==
    CHOOSE i \in IdentifiedTrials(query_id) : \A j \in IdentifiedTrials(query_id) : i <= j

\* C10 (amended): the identifications are returned in the order in which the
\* first identified trial of each query_id was processed; a later trial that
\* replaces an earlier one of its query_id takes the earlier one's place.
C10_OrderOfFirstIdentification ==
    pc = "done" =>
        /\ \A i \in 1..Len(query_matches) :
               IdentifiedTrials(query_matches[i].query_id) # {}
        /\ \A i, j \in 1..Len(query_matches) :
               i < j => FirstIdentifiedTrial(query_matches[i].query_id)
                            < FirstIdentifiedTrial(query_matches[j].query_id)

\* A finished run that returns a replaced identification in front of an
\* identification whose trial was processed earlier.
C10_Witness ==
    /\ pc = "done"
    /\ \E i, j \in 1..Len(query_matches) :
           /\ i < j
           /\ query_matches[i].trial > query_matches[j].trial
           /\ FirstIdentifiedTrial(query_matches[i].query_id) < query_matches[i].trial

(***************************************************************************)
(* Properties of concurrent queries and of the index construction.         *)
(***************************************************************************)
\* C7 (as claimed): a thread that runs a nearest-neighbour query holds a
\* handle that is loaded and is the index of the charge of its query.
C7_QueryOnLoadedHandle ==
    \A t \in DOMAIN tpc :
        tpc[t] = "query" =>
            /\ theld[t] \in LoadedHandles
            /\ handles[theld[t]].charge = treq[t]

OrigMissing ==
    {c \in ann_charges(library, config.ann_cutoff) : ~orig_files[c].exists}

\* C6 (as claimed): when some but not all index files of the ANN charges are
\* missing, the index file of every ANN charge that was not missing stays as
\* it was.
C6_ExistingIndexFilesKept ==
    (/\ ~is_recreated
     /\ OrigMissing # {}
     /\ OrigMissing # ann_charges(library, config.ann_cutoff)) =>
        \A c \in ann_charges(library, config.ann_cutoff) \ OrigMissing :
            index_files[c] = orig_files[c]

(***************************************************************************)
(* Properties of the trials of a search run.                               *)
(***************************************************************************)
\* The charges a spectrum of the query file is tried with.
ExpectedCharges(raw) ==
    IF raw.precursor_charge = None THEN {2, 3} ELSE {raw.precursor_charge}

\* The positions of query_spectra that hold the trial of query n with charge c.
TrialsFor(n, c) ==
    {i \in 1..Len(query_spectra) :
        query_spectra[i].query_id = n /\ query_spectra[i].precursor_charge = c}

\* C11: once the query file is read, a spectrum of unknown charge has one
\* trial for each of the charges 2 and 3 under which it is valid, a spectrum of
\* known charge has one trial with that charge if it is valid, every trial
\* carries the query_id and the m/z of its spectrum, there is no other trial,
\* and the trials handed to _find_match are these trials.
C11_TrialsPerQuery ==
    pc \in {"identify", "done", "raised"} =>
        /\ \A n \in 1..Len(raw_queries) : \A c \in Charges :
               Cardinality(TrialsFor(n, c)) =
                   IF c \in ExpectedCharges(raw_queries[n]) \cap raw_queries[n].valid_charges
                   THEN 1 ELSE 0
        /\ \A i \in 1..Len(query_spectra) :
               /\ query_spectra[i].query_id \in 1..Len(raw_queries)
               /\ query_spectra[i].precursor_mz
                      = raw_queries[query_spectra[i].query_id].precursor_mz
        /\ Len(outcomes) <= Len(query_spectra)
        /\ pc = "done" => Len(outcomes) = Len(query_spectra)
        /\ \A i \in 1..Len(outcomes) :
               /\ outcomes[i].query_id = query_spectra[i].query_id
               /\ outcomes[i].precursor_charge = query_spectra[i].precursor_charge

\* A finished run on a spectrum of unknown charge that is valid with both
\* charges and a spectrum of unknown charge that is valid with charge 3 only.
C11_Witness ==
    /\ pc = "done"
    /\ \E n, k \in 1..Len(raw_queries) :
           /\ raw_queries[n].precursor_charge = None
           /\ raw_queries[n].valid_charges = {2, 3}
           /\ TrialsFor(n, 2) # {} /\ TrialsFor(n, 3) # {}
           /\ raw_queries[k].precursor_charge = None
           /\ raw_queries[k].valid_charges = {3}
           /\ TrialsFor(k, 2) = {} /\ TrialsFor(k, 3) # {}
    /\ Len(outcomes) = 3

(***************************************************************************)
(* Properties of the mass filter.                                          *)
(***************************************************************************)
\* Position of a library id in the library.
LibPos(id) == CHOOSE i \in 1..Len(library) : library[i].id = id

\* C12: _get_mass_filter_idx returns exactly the ids of the library entries of
\* the query's charge whose mass satisfies the predicate of the mode (bound
\* included; every entry of the charge for a mode other than Da and ppm), each
\* once, in library order.
C12_MassFilterExact ==
    n_calls > 0 =>
        /\ \A e \in Range(library) :
               e.id \in Range(call.mass_filter)
                   <=> InWindow(e, call.query, call.tol_mass, call.tol_mode)
        /\ \A i, j \in 1..Len(call.mass_filter) :
               i < j => LibPos(call.mass_filter[i]) < LibPos(call.mass_filter[j])

\* A Da call that keeps an entry on the bound and drops another entry of the
\* charge, and (in another state) a ppm call that does.
OnBound(e) ==
    /\ e.charge = call.query.precursor_charge
    /\ e.mass # call.query.precursor_mz
    /\ \/ /\ call.tol_mode = "Da"
          /\ Abs(call.query.precursor_mz - e.mass) * e.charge = call.tol_mass
       \/ /\ call.tol_mode = "ppm"
          /\ Abs(call.query.precursor_mz - e.mass) * 10^6 = call.tol_mass * e.mass

C12_Witness ==
    /\ n_calls > 0
    /\ call.tol_mode = "ppm"
    /\ \E e \in Range(library) : OnBound(e) /\ e.id \in Range(call.mass_filter)
    /\ \E e \in Range(library) :
           /\ e.charge = call.query.precursor_charge
           /\ e.id \notin Range(call.mass_filter)
    /\ Len(call.mass_filter) >= 2

C12_WitnessDa ==
    /\ n_calls > 0
    /\ call.tol_mode = "Da"
    /\ \E e \in Range(library) : OnBound(e) /\ e.id \in Range(call.mass_filter)
    /\ \E e \in Range(library) :
           /\ e.charge = call.query.precursor_charge
           /\ e.id \notin Range(call.mass_filter)

(***************************************************************************)
(* Properties of the similarity measures.                                  *)
(***************************************************************************)
IsZero(v) == v.kind = "number" /\ v.num = 0 /\ v.den # 0

AllIntensities == ssm.query_spectrum.intensity \o ssm.library_spectrum.intensity

ZeroOnEmptyMatch ==
    {"cosine", "n_matched_peaks", "frac_n_peaks_query", "frac_n_peaks_library",
     "frac_intensity_query", "frac_intensity_library", "ms_for_id_v1", "ms_for_id_v2",
     "hypergeometric_score", "canberra", "ruzicka", "pearsonr", "spearmanr"}

\* C13 (as claimed): on a match without peak pairs no method raises and every
\* method returns its sentinel: 0 for cosine, n_matched_peaks, the four
\* fractions, ms_for_id_v1, ms_for_id_v2, hypergeometric_score, canberra,
\* ruzicka, pearsonr and spearmanr, infinity for mean_squared_error (of a known
\* axis), -1 for kendalltau, the sum of all intensities for manhattan and the
\* largest of all intensities for chebyshev.
C13_EmptyMatchSentinels ==
    (/\ result.metric # "none"
     /\ ssm.peak_matches = <<>>
     /\ result.metric = "mean_squared_error" => result.arg[1] \in {"mz", "intensity"}) =>
        /\ result.raised = "none"
        /\ result.metric \in ZeroOnEmptyMatch => IsZero(result.value)
        /\ result.metric = "mean_squared_error" => result.value = Inf
        /\ result.metric = "kendalltau" => result.value = Num(0 - 1)
        /\ result.metric = "manhattan" => result.value = Num(SumSeq(AllIntensities))
        /\ result.metric = "chebyshev" => result.value = Num(MaxSeq(AllIntensities))

\* C14 (as claimed): the construction with a top that is not positive fails:
\* no factory is built and no method computes a value from it.
C14_NonPositiveTopRejected ==
    (factory.status # "none" /\ factory.top.given /\ factory.top.n <= 0) =>
        /\ factory.status # "built"
        /\ result.metric = "none"

\* C15: mean_squared_error raises ValueError exactly when the axis is neither
\* "mz" nor "intensity", whatever the match, also a match without peak pairs
\* (for which a known axis gives infinity).
C15_UnknownAxisRaises ==
    result.metric = "mean_squared_error" =>
        /\ result.arg[1] \notin {"mz", "intensity"} => result.raised = "ValueError"
        /\ result.arg[1] \in {"mz", "intensity"} => result.raised = "none"
        /\ (result.arg[1] \in {"mz", "intensity"} /\ ssm.peak_matches = <<>>) =>
               result.value = Inf

\* The unknown axis on a match without peak pairs.
C15_Witness ==
    /\ result.metric = "mean_squared_error"
    /\ result.arg = <<"rt">>
    /\ ssm.peak_matches = <<>>
    /\ factory.matched_none
    /\ result.raised = "ValueError"

\* The match pairs a spectrum with itself, peak i with peak i.
IdentityAlignment ==
    /\ ssm.query_spectrum = ssm.library_spectrum
    /\ Len(ssm.peak_matches) = Len(ssm.query_spectrum.mz)
    /\ \A i \in 1..Len(ssm.peak_matches) : ssm.peak_matches[i][1] = ssm.peak_matches[i][2]

MassFilterPos(id) == CHOOSE i \in 1..Len(call.mass_filter) : call.mass_filter[i] = id

\* C17: when the ANN index was used, the candidate ids are the ids common to
\* the mass filter and the ANN neighbours, each once, in the order in which
\* the mass filter lists them, whatever the order of the ANN answer.
C17_CandidatesInMassFilterOrder ==
    (n_calls > 0 /\ call.used_ann) =>
        /\ Range(call.candidate_idx) = Range(call.mass_filter) \cap Range(call.ann_filter)
        /\ \A i, j \in 1..Len(call.candidate_idx) :
               i < j => MassFilterPos(call.candidate_idx[i])
                            < MassFilterPos(call.candidate_idx[j])

\* Two common ids that the ANN answer lists in the opposite order.
C17_Witness ==
    /\ n_calls > 0
    /\ call.used_ann
    /\ Len(call.candidate_idx) = 2
    /\ Len(call.ann_filter) = 2
    /\ call.ann_filter[1] = call.candidate_idx[2]
    /\ call.ann_filter[2] = call.candidate_idx[1]

\* The valid trials in the order of the query file.
FileOrder == read_queries(raw_queries, Len(raw_queries))

\* Position of a trial in a sequence of trials that holds it.
PosIn(order, t) == CHOOSE i \in 1..Len(order) : order[i] = t

\* Position of a trial in the query file order.
FilePos(t) == PosIn(FileOrder, t)

\* C18: the trials handed to the candidate retrieval are the valid trials of
\* the query file, each once, in non-decreasing order of (precursor_charge,
\* precursor_mz); the trials of one charge are contiguous; trials with equal
\* charge and m/z are in the order of the query file; and the identification
\* loop takes the trials in this order.
C18_TrialsSortedStable ==
    pc \in {"identify", "done", "raised"} =>
        /\ \E order \in {FileOrder} :
               /\ Len(query_spectra) = Len(order)
               /\ \A i \in 1..Len(order) :
                      Cardinality({j \in 1..Len(query_spectra) :
                                      query_spectra[j] = order[i]}) = 1
               /\ \A i \in 1..Len(query_spectra) : \A j \in (i + 1)..Len(query_spectra) :
                      /\ ~KeyLess(query_spectra[j], query_spectra[i])
                      /\ (~KeyLess(query_spectra[i], query_spectra[j])) =>
                             PosIn(order, query_spectra[i]) < PosIn(order, query_spectra[j])
        /\ \A i \in 1..Len(query_spectra) : \A j \in (i + 1)..Len(query_spectra) :
               query_spectra[i].precursor_charge = query_spectra[j].precursor_charge =>
                   \A k \in (i + 1)..(j - 1) :
                       query_spectra[k].precursor_charge = query_spectra[i].precursor_charge
        /\ \A i \in 1..Len(outcomes) :
               /\ outcomes[i].trial = i
               /\ outcomes[i].query_id = query_spectra[i].query_id
               /\ outcomes[i].precursor_charge = query_spectra[i].precursor_charge
               /\ outcomes[i].precursor_mz = query_spectra[i].precursor_mz

\* A finished run on a query file that is not in charge order, so that the
\* sort moves a trial, and that holds two trials of equal charge and m/z.
C18_Witness ==
    /\ pc = "done"
    /\ Len(outcomes) = 3
    /\ ~IsSortedSeq(FileOrderCharges)
    /\ \E i, j \in 1..Len(query_spectra) :
           /\ i < j
           /\ ~KeyLess(query_spectra[i], query_spectra[j])
           /\ ~KeyLess(query_spectra[j], query_spectra[i])
    /\ \E i \in 1..Len(query_spectra) : FilePos(query_spectra[i]) # i

(***************************************************************************)
(* Properties of the opened engine.                                        *)
(***************************************************************************)
\* The index file a build from all valid library spectra of the charge leaves.
FreshIndexFile(c) == [exists |-> TRUE, items |-> ValidIds(library, c)]

\* C19 (as claimed): once the engine is opened, the ANN charges are the
\* library charges with more than ann_cutoff entries; with is_recreated every
\* ANN charge has an index file built from all its valid library spectra;
\* without it an ANN charge whose file was missing has such a file and the
\* file of an ANN charge that had one is not rebuilt; and the charges at or
\* below ann_cutoff get no index.
C19_RebuildWhatIsStaleOrMissing ==
    open_pc = "opened" =>
        /\ ann_filenames = {c \in Charges : Len(spec_info(library, c)) > config.ann_cutoff}
        /\ \A c \in ann_filenames :
               IF is_recreated \/ ~orig_files[c].exists
               THEN index_files[c] = FreshIndexFile(c)
               ELSE index_files[c] = orig_files[c]
        /\ \A c \in Charges \ ann_filenames :
               /\ index_files[c] = orig_files[c]
               /\ ~ann_indices[c].made

\* The sets of library peak numbers that are the t most intense library peaks
\* (all peaks when there are at most t).
HighestLibraryPeaks(t) ==
    LET int2 == ssm.library_spectrum.intensity
        n    == Len(int2)
    IN  IF t >= n THEN {0..(n - 1)}
        ELSE {S \in SUBSET (0..(n - 1)) :
                 /\ Cardinality(S) = t
                 /\ \A i \in S : \A j \in (0..(n - 1)) \ S : int2[i + 1] >= int2[j + 1]}

\* The rows of peak_matches whose library peak is in S, in their order.
RowsWithin(S) == SelectSeq(ssm.peak_matches, LAMBDA row : row[2] \in S)

\* C20 (as claimed): a factory constructed with top = t >= 1 on a match with
\* peak pairs is built; its four matched arrays have one length and hold, in
\* the order of peak_matches, the pairs whose library peak is among the t most
\* intense library peaks; so there are at most min(t, |peak_matches|) of them;
\* also when t exceeds the number of library peaks.
C20_TopKeepsMostIntense ==
    (/\ factory.status # "none"
     /\ factory.top.given
     /\ factory.top.n >= 1
     /\ ssm.peak_matches # <<>>) =>
        /\ factory.status = "built"
        /\ ~factory.matched_none
        /\ Len(factory.matched_int1) = Len(factory.matched_mz1)
        /\ Len(factory.matched_mz2) = Len(factory.matched_mz1)
        /\ Len(factory.matched_int2) = Len(factory.matched_mz1)
        /\ Len(factory.matched_mz1) <= Min(factory.top.n, Len(ssm.peak_matches))
        /\ \E S \in HighestLibraryPeaks(factory.top.n) :
               /\ factory.matched_mz1 = Take(ssm.query_spectrum.mz, RowsWithin(S), 1)
               /\ factory.matched_int1 = Take(ssm.query_spectrum.intensity, RowsWithin(S), 1)
               /\ factory.matched_mz2 = Take(ssm.library_spectrum.mz, RowsWithin(S), 2)
               /\ factory.matched_int2 = Take(ssm.library_spectrum.intensity, RowsWithin(S), 2)

(***************************************************************************)
(* Properties of the hypergeometric score.                                 *)
(***************************************************************************)
\* The sum of C(L, i) * C(B - L, L - i) for i from k + 1 to last, taken from
\* the last term down.
RECURSIVE HypergeometricTerms(_, _, _, _)
HypergeometricTerms(k, last, L, B) ==
    IF last <= k THEN 0
    ELSE comb(L, last) * comb(B - L, L - last) + HypergeometricTerms(k, last - 1, L, B)

C22_ItemNumberIsSpecInfoPosition ==
    open_pc = "opened" =>
        \A c \in create_ann_charges :
            \A n \in 0..(Len(index_files[c].items) - 1) :
                /\ n + 1 <= Len(spec_info(library, c))
                /\ ann_translate(library, c, <<n>>) = <<index_files[c].items[n + 1]>>

(***************************************************************************)
(* Properties of shutdown.                                                 *)
(***************************************************************************)
\* The handles the backend log unloads, in log order.
UnloadedHandles == SelectSeq(events, LAMBDA e : e[1] = "unload")

\* C23: every call of _get_ann_index returns a handle that is loaded; a slot
\* that reports a charge as cached holds a loaded handle, also after
\* shutdown, so that a later request for the charge loads the index again;
\* and no handle is unloaded twice, by a second shutdown or otherwise.
C23_NoUnloadedHandleReturned ==
    /\ [](current_index.charge # None => handles[current_index.handle].loaded)
    /\ [](\A i, j \in 1..Len(UnloadedHandles) :
              i # j => UnloadedHandles[i][2] # UnloadedHandles[j][2])
    /\ [][requests' # requests => handles'[last_ret'.handle].loaded]_vars

(***************************************************************************)
(* Properties of the index file names of one instance.                     *)
(***************************************************************************)
\* C24: the charges an opened engine treats as ANN-indexed are the charges
\* of its own library with more than ann_cutoff spectra, and the file name of
\* each of them is the one the engine assigned itself, whatever other
\* instances were created before or after.
C24_OwnIndexFilesOnly ==
    open_pc = "opened" =>
        /\ ann_filenames = ann_charges(library, config.ann_cutoff)
        /\ other_filenames = {}

(***************************************************************************)
(* Properties of the deduplication of the charge trials.                   *)
(***************************************************************************)
\* C25: an identification stored in query_matches is replaced only by an
\* identification of the same query_id with a strictly higher score; so the
\* stored identification of a query_id is, among its identified trials
\* processed so far, the first one with the highest score, which among trials
\* of equal score is the one of the lowest charge.
C25_TiesKeepFirstTrial ==
    /\ [](\A i \in 1..Len(query_matches) :
              \E m \in {query_matches[i]} :
                  /\ m.trial \in IdentifiedTrials(m.query_id)
                  /\ m = outcomes[m.trial]
                  /\ \A t \in IdentifiedTrials(m.query_id) :
                         /\ outcomes[t].search_engine_score <= m.search_engine_score
                         /\ outcomes[t].search_engine_score = m.search_engine_score =>
                                /\ m.trial <= t
                                /\ m.precursor_charge <= outcomes[t].precursor_charge)
    /\ [][\A i \in 1..Len(query_matches) :
              query_matches'[i] # query_matches[i] =>
                  /\ query_matches'[i].query_id = query_matches[i].query_id
                  /\ query_matches'[i].search_engine_score
                         > query_matches[i].search_engine_score]_vars

\* A finished run in which both charge trials of a query were identified with
\* the same score: the identification of charge 2 is the one returned.
C25_Witness ==
    /\ pc = "done"
    /\ \E i, j \in 1..Len(outcomes) :
           /\ i < j
           /\ outcomes[i].query_id = outcomes[j].query_id
           /\ outcomes[i].identified /\ outcomes[j].identified
           /\ outcomes[i].search_engine_score = outcomes[j].search_engine_score
           /\ outcomes[i].precursor_charge < outcomes[j].precursor_charge
           /\ outcomes[i] \in Range(query_matches)

====
